---- MODULE Spec2Model ----
(***************************************************************************)
(* Model of src/server.js: the socket.io tic-tac-toe room server.          *)
(* State: the two module-level Maps (rooms, players), the life cycle of    *)
(* each socket, the transport's group membership (socket.join), and the    *)
(* messages the last handler emitted.  One action per socket.io handler.   *)
(***************************************************************************)
EXTENDS Integers, Sequences, FiniteSets, TLC

\* Sockets that connect during the life of the server, in the specification Spec.
MaxConn == 3
\* Sockets that connect in the specifications SpecPair and SpecRooms.
PairConns == 2
\* Size of the code space generateRoomCode draws from in SpecRooms.
MaxCodes == 2
\* Highest cell index clients send in Spec.
MaxCell == 5
\* Highest cell index clients send in SpecPair.
PairCell == 4
\* Seats of a room: the 2 of `room.players.length >= 2` (line 131).
Capacity == 2

\* socket.id values, named in the order the sockets connect.
Conns == 1..MaxConn
\* Values generateRoomCode can return (line 23): any code of the code space.
generateRoomCode == 1..MaxCodes
\* The code space of the single-room specifications: one code.
SingleCode == {1}
\* The code space of SpecIndex: two codes.
TwoCodes == {1, 2}
\* Display names clients send: each socket's user sends their own name.
UserName == <<"Alice", "Bob", "Carol", "Dave", "Erin">>
Names(s) == {UserName[s]}
\* Cell indices clients send with makeMove: every cell, and an index off the
\* board on either side.
AllIndices == -1..9
\* The indices clients send in Spec and in SpecPair: the first cells of the
\* board (a win on the first row is possible) and one index off the board.
FewIndices == (0..MaxCell) \cup {9}
PairIndices == (0..PairCell) \cup {9}
\* The indices clients send in SpecRooms.
RoomsIndices == {0, 1, 9}
\* The indices clients send in SpecLobby and SpecIndex: one cell and an index
\* off the board.
LobbyIndices == {0, 9}
\* The indices clients send in SpecSeats: six cells on which either marker can
\* complete a line (X the first row, O the diagonal 2-4-6).
SeatIndices == {0, 1, 2, 4, 5, 6}

VARIABLES
    conns,      \* socket.id -> "new" | "open" | "closed"
    rooms,      \* const rooms = new Map(): roomCode -> [game, players]
    players,    \* const players = new Map(): socket.id -> [roomCode, playerName]
    sioRooms,   \* transport groups: roomCode -> sockets that did socket.join(roomCode)
    sent,       \* messages emitted by the last handler, in order
    last,       \* the last handler that ran, for which socket, and the branch it took
    prevMark,   \* roomCode -> marker of the last accepted move since creation / reset
    running     \* FALSE once a handler threw (uncaught exception ends the process)

vars == <<conns, rooms, players, sioRooms, sent, last, prevMark, running>>

----------------------------------------------------------------------------
\* Map helpers (JavaScript Map.set / Map.delete on a function with a finite domain)

MapSet(m, k, v) == [x \in (DOMAIN m) \cup {k} |-> IF x = k THEN v ELSE m[x]]

\* the delete that removes nothing
MapDeleteKeeps(m, k) == m

MapDelete(m, k) == [x \in (DOMAIN m) \ {k} |-> m[x]]

----------------------------------------------------------------------------
\* class TicTacToeGame

\* game.players is a JavaScript object: keys keep their insertion order, and
\* assigning an existing key keeps its position.  Modelled as a sequence of
\* [id, name, symbol, isHost].
HasPlayer(game, id) == \E k \in 1..Len(game.players) : game.players[k].id = id

\* the lookup that ignores the id and returns the first record, the creator's
PlayerOfFirstRecord(game, id) == game.players[1]

PlayerOf(game, id) ==
    game.players[CHOOSE k \in 1..Len(game.players) : game.players[k].id = id]

SetPlayer(game, id, name, symbol, isHost) ==
    LET rec == [id |-> id, name |-> name, symbol |-> symbol, isHost |-> isHost]
    IN  IF HasPlayer(game, id)
        THEN [game EXCEPT !.players =
                 [k \in 1..Len(game.players) |->
                     IF game.players[k].id = id THEN rec ELSE game.players[k]]]
        ELSE [game EXCEPT !.players = Append(game.players, rec)]

\* constructor (lines 28-34)
NewGame ==
    [board         |-> [i \in 0..8 |-> ""],
     currentPlayer |-> "X",
     players       |-> << >>,
     gameActive    |-> FALSE,
     winner        |-> "null"]

\* the pattern list without its second row, [3, 4, 5]
winPatternsNoMiddleRow ==
    << <<0, 1, 2>>, <<6, 7, 8>>,
       <<0, 3, 6>>, <<1, 4, 7>>, <<2, 5, 8>>,
       <<0, 4, 8>>, <<2, 4, 6>> >>

winPatterns ==
    << <<0, 1, 2>>, <<3, 4, 5>>, <<6, 7, 8>>,
       <<0, 3, 6>>, <<1, 4, 7>>, <<2, 5, 8>>,
       <<0, 4, 8>>, <<2, 4, 6>> >>

\* checkWinner with the last pattern, the diagonal [2, 4, 6], left out
checkWinnerNoAntiDiagonal(game) ==
    \E p \in 1..(Len(winPatterns) - 1) :
        LET a == winPatterns[p][1]
            b == winPatterns[p][2]
            c == winPatterns[p][3]
        IN  /\ game.board[a] # ""
            /\ game.board[a] = game.board[b]
            /\ game.board[a] = game.board[c]

\* checkWinner (lines 64-77)
checkWinner(game) ==
    \E p \in 1..Len(winPatterns) :
        LET a == winPatterns[p][1]
            b == winPatterns[p][2]
            c == winPatterns[p][3]
        IN  /\ game.board[a] # ""
            /\ game.board[a] = game.board[b]
            /\ game.board[a] = game.board[c]

\* the cell read that always finds the cell empty: no occupied-cell check
BoardAtAlwaysEmpty(game, index) == ""

\* this.board[index] for any index a client can send: undefined off the board
BoardAt(game, index) ==
    IF index \in DOMAIN game.board THEN game.board[index] ELSE "undefined"

\* makeMove with line 46 moved above the turn check of lines 41-44: a move out
\* of turn returns false after writing the cell
makeMoveWritesBeforeTurnCheck(game, index, playerId) ==
    IF BoardAt(game, index) # "" \/ ~game.gameActive
    THEN [ret |-> "false", game |-> game]
    ELSE IF ~HasPlayer(game, playerId)
    THEN [ret |-> "TypeError", game |-> game]
    ELSE
    LET playerSymbol == PlayerOf(game, playerId).symbol
        g1 == [game EXCEPT !.board[index] = playerSymbol]
    IN  IF playerSymbol # game.currentPlayer
        THEN [ret |-> "false", game |-> g1]
        ELSE IF checkWinner(g1)
        THEN [ret |-> "true",
              game |-> [g1 EXCEPT !.winner = playerSymbol, !.gameActive = FALSE]]
        ELSE IF \A i \in DOMAIN g1.board : g1.board[i] # ""
        THEN [ret |-> "true",
              game |-> [g1 EXCEPT !.winner = "draw", !.gameActive = FALSE]]
        ELSE [ret |-> "true",
              game |-> [g1 EXCEPT !.currentPlayer =
                           IF game.currentPlayer = "X" THEN "O" ELSE "X"]]

\* makeMove without line 56: a draw sets the outcome and leaves the game active
makeMoveDrawStaysActive(game, index, playerId) ==
    IF BoardAt(game, index) # "" \/ ~game.gameActive
    THEN [ret |-> "false", game |-> game]
    ELSE IF ~HasPlayer(game, playerId)
    THEN [ret |-> "TypeError", game |-> game]
    ELSE
    LET playerSymbol == PlayerOf(game, playerId).symbol
        g1 == [game EXCEPT !.board[index] = playerSymbol]
    IN  IF playerSymbol # game.currentPlayer
        THEN [ret |-> "false", game |-> game]
        ELSE IF checkWinner(g1)
        THEN [ret |-> "true",
              game |-> [g1 EXCEPT !.winner = playerSymbol, !.gameActive = FALSE]]
        ELSE IF \A i \in DOMAIN g1.board : g1.board[i] # ""
        THEN [ret |-> "true", game |-> [g1 EXCEPT !.winner = "draw"]]
        ELSE [ret |-> "true",
              game |-> [g1 EXCEPT !.currentPlayer =
                           IF game.currentPlayer = "X" THEN "O" ELSE "X"]]

\* makeMove (lines 36-62): the value returned ("true", "false", or "TypeError"
\* when this.players[playerId] is undefined at line 41) and the game afterwards
makeMove(game, index, playerId) ==
    IF BoardAt(game, index) # "" \/ ~game.gameActive
    THEN [ret |-> "false", game |-> game]
    ELSE IF ~HasPlayer(game, playerId)
    THEN [ret |-> "TypeError", game |-> game]
    ELSE
    LET playerSymbol == PlayerOf(game, playerId).symbol
        g1 == [game EXCEPT !.board[index] = playerSymbol]
    IN  IF playerSymbol # game.currentPlayer
        THEN [ret |-> "false", game |-> game]
        ELSE IF checkWinner(g1)
        THEN [ret |-> "true",
              game |-> [g1 EXCEPT !.winner = playerSymbol, !.gameActive = FALSE]]
        ELSE IF \A i \in DOMAIN g1.board : g1.board[i] # ""
        THEN [ret |-> "true",
              game |-> [g1 EXCEPT !.winner = "draw", !.gameActive = FALSE]]
        ELSE [ret |-> "true",
              game |-> [g1 EXCEPT !.currentPlayer =
                           IF game.currentPlayer = "X" THEN "O" ELSE "X"]]

\* reset without line 83: the outcome of the finished game is kept
resetKeepsWinner(game) ==
    [game EXCEPT !.board = [i \in 0..8 |-> ""],
                 !.currentPlayer = "X",
                 !.gameActive = TRUE]

\* reset (lines 79-84)
reset(game) ==
    [game EXCEPT !.board = [i \in 0..8 |-> ""],
                 !.currentPlayer = "X",
                 !.gameActive = TRUE,
                 !.winner = "null"]

----------------------------------------------------------------------------
\* Transport (socket.io): who receives an emit

\* io.emit: every socket of every group, whatever the room
ToRoomEveryone(groups, roomCode) == UNION {groups[c] : c \in DOMAIN groups}

\* io.to(roomCode).emit
ToRoom(groups, roomCode) == groups[roomCode]

\* socket.to(roomCode).emit: the group without the sender
ToOthers(groups, roomCode, s) == groups[roomCode] \ {s}

Event(op, s, result) == [op |-> op, conn |-> s, result |-> result]

----------------------------------------------------------------------------
Init ==
    /\ conns = [s \in Conns |-> "new"]
    /\ rooms = << >>
    /\ players = << >>
    /\ sioRooms = [c \in generateRoomCode |-> {}]
    /\ sent = << >>
    /\ last = Event("listen", 0, "ok")
    /\ prevMark = [c \in generateRoomCode |-> ""]
    /\ running = TRUE

\* io.on('connection') (lines 88-89): sockets are named in the order they connect
Connect(s) ==
    /\ running
    /\ conns[s] = "new"
    /\ \A t \in Conns : t < s => conns[t] # "new"
    /\ conns' = [conns EXCEPT ![s] = "open"]
    /\ sent' = << >>
    /\ last' = Event("connection", s, "ok")
    /\ UNCHANGED <<rooms, players, sioRooms, prevMark, running>>

\* socket.on('createRoom') (lines 92-120); roomCode is what generateRoomCode returned
CreateRoom(s, playerName, roomCode) ==
    /\ running
    /\ conns[s] = "open"
    /\ LET game == SetPlayer(NewGame, s, playerName, "X", TRUE)
           groups == [sioRooms EXCEPT ![roomCode] = @ \cup {s}]
       IN  /\ rooms' = MapSet(rooms, roomCode, [game |-> game, players |-> <<s>>])
           /\ sioRooms' = groups
           /\ players' = MapSet(players, s,
                                [roomCode |-> roomCode, playerName |-> playerName])
           /\ sent' = << [ev |-> "roomCreated", to |-> {s}, roomCode |-> roomCode,
                          playerSymbol |-> "X", playerName |-> playerName],
                         [ev |-> "playerJoined", to |-> ToRoom(groups, roomCode),
                          playerName |-> playerName, playerCount |-> 1] >>
    /\ prevMark' = [prevMark EXCEPT ![roomCode] = ""]
    /\ last' = Event("createRoom", s, "ok")
    /\ UNCHANGED <<conns, running>>

\* the capacity check off by one: room.players.length > 2
RoomFullOffByOne(room) == Len(room.players) > Capacity

\* room.players.length >= 2 (line 131)
RoomFull(room) == Len(room.players) >= Capacity

\* socket.on('joinRoom') (lines 123-168)
JoinRoom(s, roomCode, playerName) ==
    /\ running
    /\ conns[s] = "open"
    /\ IF roomCode \notin DOMAIN rooms
       THEN /\ sent' = << [ev |-> "error", to |-> {s}, text |-> "Sala não encontrada"] >>
            /\ last' = Event("joinRoom", s, "notFound")
            /\ UNCHANGED <<rooms, players, sioRooms>>
       ELSE IF RoomFull(rooms[roomCode])
       THEN /\ sent' = << [ev |-> "error", to |-> {s}, text |-> "Sala cheia"] >>
            /\ last' = Event("joinRoom", s, "full")
            /\ UNCHANGED <<rooms, players, sioRooms>>
       ELSE
       LET room == rooms[roomCode]
           game == [SetPlayer(room.game, s, playerName, "O", FALSE)
                        EXCEPT !.gameActive = TRUE]
           members == Append(room.players, s)
           groups == [sioRooms EXCEPT ![roomCode] = @ \cup {s}]
       IN  /\ rooms' = [rooms EXCEPT ![roomCode] = [game |-> game, players |-> members]]
           /\ sioRooms' = groups
           /\ players' = MapSet(players, s,
                                [roomCode |-> roomCode, playerName |-> playerName])
           /\ sent' = << [ev |-> "roomJoined", to |-> {s}, roomCode |-> roomCode,
                          playerSymbol |-> "O", playerName |-> playerName,
                          opponentName |-> PlayerOf(game, members[1]).name],
                         [ev |-> "opponentJoined", to |-> ToOthers(groups, roomCode, s),
                          opponentName |-> playerName],
                         [ev |-> "gameState", to |-> ToRoom(groups, roomCode),
                          board |-> game.board, currentPlayer |-> game.currentPlayer,
                          gameActive |-> game.gameActive, players |-> game.players] >>
           /\ last' = Event("joinRoom", s, "ok")
    /\ UNCHANGED <<conns, prevMark, running>>

\* The gameOver message of the makeMove handler (lines 190-203).  winnerId is the
\* first key of game.players, in insertion order, whose symbol is the winner.
GameOver(game, groups, roomCode) ==
    LET holders == {k \in 1..Len(game.players) : game.players[k].symbol = game.winner}
        first == CHOOSE k \in holders : \A j \in holders : k <= j
    IN  [ev |-> "gameOver", to |-> ToRoom(groups, roomCode),
         winner |-> game.winner,
         winnerName |-> IF game.winner # "draw" THEN game.players[first].name
                        ELSE "null",
         board |-> game.board]

\* socket.on('makeMove') (lines 171-206)
MakeMove(s, index) ==
    /\ running
    /\ conns[s] = "open"
    /\ IF s \notin DOMAIN players
       THEN /\ last' = Event("makeMove", s, "noPlayerData")
            /\ sent' = << >>
            /\ UNCHANGED <<rooms, prevMark, running>>
       ELSE IF players[s].roomCode \notin DOMAIN rooms
       THEN /\ last' = Event("makeMove", s, "noRoom")
            /\ sent' = << >>
            /\ UNCHANGED <<rooms, prevMark, running>>
       ELSE
       LET roomCode == players[s].roomCode
           res == makeMove(rooms[roomCode].game, index, s)
           game == res.game
           moveMade == [ev |-> "moveMade", to |-> ToRoom(sioRooms, roomCode),
                        index |-> index, player |-> PlayerOf(game, s).symbol,
                        board |-> game.board, currentPlayer |-> game.currentPlayer,
                        gameActive |-> game.gameActive]
       IN  \* makeMove works on the game object in place, whatever it returns
           /\ rooms' = [rooms EXCEPT ![roomCode].game = game]
           /\ CASE res.ret = "TypeError" ->
                  /\ running' = FALSE
                  /\ last' = Event("makeMove", s, "threw")
                  /\ sent' = << >>
                  /\ UNCHANGED prevMark
             [] res.ret = "false" ->
                  /\ last' = Event("makeMove", s, "rejected")
                  /\ sent' = << >>
                  /\ UNCHANGED <<prevMark, running>>
             [] res.ret = "true" ->
                  /\ prevMark' = [prevMark EXCEPT ![roomCode] = PlayerOf(game, s).symbol]
                  /\ last' = Event("makeMove", s, "accepted")
                  /\ sent' = IF ~game.gameActive
                             THEN <<moveMade, GameOver(game, sioRooms, roomCode)>>
                             ELSE <<moveMade>>
                  /\ UNCHANGED running
    /\ UNCHANGED <<conns, players, sioRooms>>

\* socket.on('resetGame') (lines 209-223)
ResetGame(s) ==
    /\ running
    /\ conns[s] = "open"
    /\ IF s \notin DOMAIN players
       THEN /\ last' = Event("resetGame", s, "noPlayerData")
            /\ sent' = << >>
            /\ UNCHANGED <<rooms, prevMark>>
       ELSE IF players[s].roomCode \notin DOMAIN rooms
       THEN /\ last' = Event("resetGame", s, "noRoom")
            /\ sent' = << >>
            /\ UNCHANGED <<rooms, prevMark>>
       ELSE
       LET roomCode == players[s].roomCode
           game == reset(rooms[roomCode].game)
       IN  /\ rooms' = [rooms EXCEPT ![roomCode].game = game]
           /\ prevMark' = [prevMark EXCEPT ![roomCode] = ""]
           /\ last' = Event("resetGame", s, "ok")
           /\ sent' = << [ev |-> "gameReset", to |-> ToRoom(sioRooms, roomCode),
                          board |-> game.board, currentPlayer |-> game.currentPlayer,
                          gameActive |-> game.gameActive] >>
    /\ UNCHANGED <<conns, players, sioRooms, running>>

\* socket.on('disconnect') (lines 226-248).  The transport has taken the socket
\* out of every group before the handler runs.
Disconnect(s) ==
    /\ running
    /\ conns[s] = "open"
    /\ conns' = [conns EXCEPT ![s] = "closed"]
    /\ LET groups == [c \in DOMAIN sioRooms |-> sioRooms[c] \ {s}]
       IN  /\ sioRooms' = groups
           /\ IF s \notin DOMAIN players
              THEN /\ last' = Event("disconnect", s, "noPlayerData")
                   /\ sent' = << >>
                   /\ UNCHANGED <<rooms, players, prevMark>>
              ELSE IF players[s].roomCode \notin DOMAIN rooms
              THEN /\ last' = Event("disconnect", s, "noRoom")
                   /\ sent' = << >>
                   /\ players' = MapDelete(players, s)
                   /\ UNCHANGED <<rooms, prevMark>>
              ELSE
              LET roomCode == players[s].roomCode
                  room == rooms[roomCode]
                  members == SelectSeq(room.players, LAMBDA id : id # s)
              IN  /\ sent' = << [ev |-> "playerDisconnected",
                                 to |-> ToOthers(groups, roomCode, s),
                                 playerName |-> players[s].playerName] >>
                  /\ IF Len(members) = 0
                     THEN /\ rooms' = MapDelete(rooms, roomCode)
                          /\ prevMark' = [prevMark EXCEPT ![roomCode] = ""]
                     ELSE /\ rooms' = [rooms EXCEPT ![roomCode].players = members,
                                                    ![roomCode].game.gameActive = FALSE]
                          /\ UNCHANGED prevMark
                  /\ players' = MapDelete(players, s)
                  /\ last' = Event("disconnect", s, "ok")
    /\ UNCHANGED running

----------------------------------------------------------------------------
\* Three sockets and one room code; generateRoomCode returns a code no live
\* room has, so one room lives at a time.
Next ==
    \/ \E s \in Conns : Connect(s)
    \/ \E s \in Conns, c \in SingleCode :
          c \notin DOMAIN rooms /\ \E n \in Names(s) : CreateRoom(s, n, c)
    \/ \E s \in Conns, c \in SingleCode : \E n \in Names(s) : JoinRoom(s, c, n)
    \/ \E s \in Conns, i \in FewIndices : MakeMove(s, i)
    \/ \E s \in Conns : ResetGame(s)
    \/ \E s \in Conns : Disconnect(s)

Spec == Init /\ [][Next]_vars

\* Two sockets and one room code that generateRoomCode returns every time: a
\* createRoom while the room lives replaces its record (lines 93, 102).
NextPair ==
    \/ \E s \in 1..PairConns : Connect(s)
    \/ \E s \in 1..PairConns, c \in SingleCode : \E n \in Names(s) : CreateRoom(s, n, c)
    \/ \E s \in 1..PairConns, c \in SingleCode : \E n \in Names(s) : JoinRoom(s, c, n)
    \/ \E s \in 1..PairConns, i \in PairIndices : MakeMove(s, i)
    \/ \E s \in 1..PairConns : ResetGame(s)
    \/ \E s \in 1..PairConns : Disconnect(s)

SpecPair == Init /\ [][NextPair]_vars

\* One room code and the sockets of a room's two seats, playing on the whole
\* board: every line and the draw are played out.  generateRoomCode returns the
\* same code every time, as in SpecPair.
NextGame ==
    \/ \E s \in 1..Capacity : Connect(s)
    \/ \E s \in 1..Capacity, c \in SingleCode : \E n \in Names(s) : CreateRoom(s, n, c)
    \/ \E s \in 1..Capacity, c \in SingleCode : \E n \in Names(s) : JoinRoom(s, c, n)
    \/ \E s \in 1..Capacity, i \in AllIndices : MakeMove(s, i)
    \/ \E s \in 1..Capacity : ResetGame(s)
    \/ \E s \in 1..Capacity : Disconnect(s)

SpecGame == Init /\ [][NextGame]_vars

\* Several rooms: generateRoomCode returns any code no live room has.
NextRooms ==
    \/ \E s \in 1..PairConns : Connect(s)
    \/ \E s \in 1..PairConns, c \in generateRoomCode :
          c \notin DOMAIN rooms /\ \E n \in Names(s) : CreateRoom(s, n, c)
    \/ \E s \in 1..PairConns, c \in generateRoomCode : \E n \in Names(s) : JoinRoom(s, c, n)
    \/ \E s \in 1..PairConns, i \in RoomsIndices : MakeMove(s, i)
    \/ \E s \in 1..PairConns : ResetGame(s)
    \/ \E s \in 1..PairConns : Disconnect(s)

SpecRooms == Init /\ [][NextRooms]_vars

\* Three sockets taking the two seats of one room in turn (a player leaves,
\* another joins), on cells where O can win; generateRoomCode returns a code no
\* live room has.
NextSeats ==
    \/ \E s \in Conns : Connect(s)
    \/ \E s \in Conns, c \in SingleCode :
          c \notin DOMAIN rooms /\ \E n \in Names(s) : CreateRoom(s, n, c)
    \/ \E s \in Conns, c \in SingleCode : \E n \in Names(s) : JoinRoom(s, c, n)
    \/ \E s \in Conns, i \in SeatIndices : MakeMove(s, i)
    \/ \E s \in Conns : ResetGame(s)
    \/ \E s \in Conns : Disconnect(s)

SpecSeats == Init /\ [][NextSeats]_vars

\* The comings and goings of three sockets around one room, with hardly any
\* play; generateRoomCode returns a code no live room has.
NextLobby ==
    \/ \E s \in Conns : Connect(s)
    \/ \E s \in Conns, c \in SingleCode :
          c \notin DOMAIN rooms /\ \E n \in Names(s) : CreateRoom(s, n, c)
    \/ \E s \in Conns, c \in SingleCode : \E n \in Names(s) : JoinRoom(s, c, n)
    \/ \E s \in Conns, i \in LobbyIndices : MakeMove(s, i)
    \/ \E s \in Conns : ResetGame(s)
    \/ \E s \in Conns : Disconnect(s)

SpecLobby == Init /\ [][NextLobby]_vars

\* Several rooms with hardly any play: sockets create and join rooms one after
\* another; generateRoomCode returns either of two codes, if no live room has it.
NextIndex ==
    \/ \E s \in 1..PairConns : Connect(s)
    \/ \E s \in 1..PairConns, c \in TwoCodes :
          c \notin DOMAIN rooms /\ \E n \in Names(s) : CreateRoom(s, n, c)
    \/ \E s \in 1..PairConns, c \in TwoCodes : \E n \in Names(s) : JoinRoom(s, c, n)
    \/ \E s \in 1..PairConns, i \in LobbyIndices : MakeMove(s, i)
    \/ \E s \in 1..PairConns : ResetGame(s)
    \/ \E s \in 1..PairConns : Disconnect(s)

SpecIndex == Init /\ [][NextIndex]_vars

----------------------------------------------------------------------------
\* Reading the last step: the room an event of socket s is about, and the
\* reference rule of the game (rows, columns and diagonals of the 3x3 grid).

\* Every handler records the socket it ran for in last, so the steps of socket
\* s are among those with last'.conn = s.
RoomOf(s) == players[s].roomCode

Bound(s) == s \in DOMAIN players /\ RoomOf(s) \in DOMAIN rooms

Members(room) == {room.players[k] : k \in 1..Len(room.players)}

Lines ==
    {{3 * r, 3 * r + 1, 3 * r + 2} : r \in 0..2}
        \cup {{k, k + 3, k + 6} : k \in 0..2}
        \cup {{0, 4, 8}, {2, 4, 6}}

HasLine(board, m) == \E L \in Lines : \A i \in L : board[i] = m

Full(board) == \A i \in 0..8 : board[i] # ""

Other(m) == IF m = "X" THEN "O" ELSE "X"

AcceptedMove == last'.op = "makeMove" /\ last'.result = "accepted"

----------------------------------------------------------------------------
\* C1: within one room, two consecutive accepted moves with no resetGame
\* between them are made with different markers, and the first accepted move
\* after the room's creation or after a resetGame is made with X.
C1_MarkersAlternate ==
    [][AcceptedMove =>
          LET c == RoomOf(last'.conn)
              m == PlayerOf(rooms[c].game, last'.conn).symbol
          IN  IF prevMark[c] = "" THEN m = "X" ELSE m # prevMark[c]]_vars

\* C2: once a move has produced a win or a draw in a room (winner is set, and
\* only reset clears it), no makeMove is accepted in that room until a
\* resetGame, whatever joinRoom and disconnect events come in between.
C2_NoMoveAfterGameOver ==
    [][AcceptedMove => rooms[RoomOf(last'.conn)].game.winner = "null"]_vars

\* C3: a room with fewer than two members has an inactive engine.
C3_SingleMemberInactive ==
    \A c \in DOMAIN rooms : Len(rooms[c].players) < Capacity => ~rooms[c].game.gameActive

\* C4: for a socket bound to a live room, makeMove returns false and leaves the
\* game as it was when the engine is inactive, the index is off the board, the
\* cell is occupied or the mover's marker is not the current turn; and a
\* makeMove the handler saw rejected leaves both maps (board, turn, active flag,
\* outcome, participants, membership, connection index) and the groups as they
\* were and sends no message.
C4_RejectedMoveChangesNothing ==
    /\ [](\A s \in DOMAIN players, i \in AllIndices :
             Bound(s) =>
                LET g == rooms[RoomOf(s)].game
                    r == makeMove(g, i, s)
                IN  (\/ ~g.gameActive
                     \/ i \notin 0..8
                     \/ g.board[i] # ""
                     \/ (HasPlayer(g, s) /\ PlayerOf(g, s).symbol # g.currentPlayer))
                    => (r.ret = "false" /\ r.game = g))
    /\ [][(last'.op = "makeMove" /\ last'.result = "rejected")
             => /\ rooms' = rooms
                /\ players' = players
                /\ sioRooms' = sioRooms
                /\ conns' = conns
                /\ sent' = << >>]_vars

\* C4 witness: an out-of-turn move was just rejected in an active room where
\* moves have been played.
C4_Witness ==
    /\ last.op = "makeMove" /\ last.result = "rejected"
    /\ Bound(last.conn)
    /\ LET g == rooms[RoomOf(last.conn)].game
       IN  /\ g.gameActive
           /\ \E i \in 0..8 : g.board[i] # ""
           /\ PlayerOf(g, last.conn).symbol # g.currentPlayer

\* C5: after every accepted move, the result is that of the reference rule: a
\* line of the mover's marker gives the mover's win and an inactive engine;
\* otherwise a full board gives a draw and an inactive engine; otherwise the
\* outcome is unchanged, the engine stays active and the turn passes.
C5_MoveResultMatchesRule ==
    [][AcceptedMove =>
          LET c == RoomOf(last'.conn)
              g == rooms[c].game
              h == rooms'[c].game
              m == PlayerOf(g, last'.conn).symbol
          IN  IF HasLine(h.board, m)
              THEN h.winner = m /\ ~h.gameActive
              ELSE IF Full(h.board)
              THEN h.winner = "draw" /\ ~h.gameActive
              ELSE /\ h.winner = g.winner
                   /\ h.gameActive
                   /\ h.currentPlayer = Other(m)]_vars

\* C5 witness: the move just accepted filled the board without a line: a draw.
C5_Witness ==
    /\ last.op = "makeMove" /\ last.result = "accepted"
    /\ LET g == rooms[RoomOf(last.conn)].game
       IN  /\ Full(g.board)
           /\ ~HasLine(g.board, "X") /\ ~HasLine(g.board, "O")
           /\ g.winner = "draw"

\* C6: a resetGame from a socket bound to a live room leaves that room with an
\* empty board, turn X, active, no outcome, and leaves the participants, the
\* membership and the connection index as they were.
C6_ResetRestores ==
    [][\A s \in {last'.conn} \cap Conns :
          (ResetGame(s) /\ Bound(s))
          => LET g == rooms[RoomOf(s)].game
                 h == rooms'[RoomOf(s)].game
             IN  /\ \A i \in 0..8 : h.board[i] = ""
                 /\ h.currentPlayer = "X"
                 /\ h.gameActive
                 /\ h.winner = "null"
                 /\ h.players = g.players
                 /\ rooms'[RoomOf(s)].players = rooms[RoomOf(s)].players
                 /\ DOMAIN rooms' = DOMAIN rooms
                 /\ players' = players]_vars

\* C6 witness: a reset was just processed in a room with both seats taken.
C6_Witness ==
    /\ last.op = "resetGame" /\ last.result = "ok"
    /\ Len(rooms[RoomOf(last.conn)].players) = Capacity
    /\ Len(sent) = 1 /\ sent[1].ev = "gameReset"

\* C7: a joinRoom for a code with no live room, or for a room with 2 members,
\* sends one error message, to the requester only, and changes neither map;
\* and no room's membership ever exceeds 2 entries.
C7_FailedJoinChangesNothing ==
    /\ [](\A c \in DOMAIN rooms : Len(rooms[c].players) <= Capacity)
    /\ [][\A s \in {last'.conn} \cap Conns, c \in generateRoomCode :
             (/\ JoinRoom(s, c, UserName[s])
              /\ (c \notin DOMAIN rooms \/ Len(rooms[c].players) >= Capacity))
             => /\ rooms' = rooms
                /\ players' = players
                /\ sioRooms' = sioRooms
                /\ Len(sent') = 1
                /\ sent'[1].ev = "error"
                /\ sent'[1].to = {s}]_vars

\* C7 witness: a join was just refused because the room is full.
C7_Witness ==
    /\ last.op = "joinRoom" /\ last.result = "full"
    /\ \E c \in DOMAIN rooms : Len(rooms[c].players) = Capacity
    /\ Len(sent) = 1 /\ sent[1].ev = "error" /\ sent[1].to = {last.conn}

\* C8: the disconnect of a socket bound to a live room removes the socket's
\* index entry; it removes the room when the socket was its only member, and
\* when the room had two members it leaves the room in the registry with
\* exactly the other member and an inactive engine.
C8_DisconnectLeavesOther ==
    [][\A s \in {last'.conn} \cap Conns :
          (Disconnect(s) /\ Bound(s))
          => LET c == RoomOf(s)
                 room == rooms[c]
             IN  /\ s \notin DOMAIN players'
                 /\ room.players = <<s>> => c \notin DOMAIN rooms'
                 /\ Len(room.players) = 2
                      => /\ c \in DOMAIN rooms'
                         /\ Len(rooms'[c].players) = 1
                         /\ rooms'[c].players[1] \in Members(room) \ {s}
                         /\ ~rooms'[c].game.gameActive]_vars

\* C9: a room with two members pairs two distinct sockets, the first holding X
\* and the second O; so in an active room exactly one member holds the marker
\* whose turn it is.
C9_TwoDistinctSeats ==
    \A c \in DOMAIN rooms :
        LET room == rooms[c]
        IN  /\ Len(room.players) = 2
                => /\ room.players[1] # room.players[2]
                   /\ PlayerOf(room.game, room.players[1]).symbol = "X"
                   /\ PlayerOf(room.game, room.players[2]).symbol = "O"
            /\ room.game.gameActive
                => Cardinality({s \in Members(room) :
                       PlayerOf(room.game, s).symbol = room.game.currentPlayer}) = 1

\* C10: when every socket that created or joined a room has disconnected (a
\* socket that did keeps its index entry until it disconnects, lines 108, 144,
\* 246), the registry holds no room and the index no entry.
C10_NoRoomOutlivesPlayers ==
    (\A s \in DOMAIN players : conns[s] # "open")
        => (DOMAIN rooms = {} /\ DOMAIN players = {})

\* C11: when an accepted move ends the game, the last message sent is gameOver;
\* after a win it carries the mover's marker as winner and, as winnerName, the
\* display name the moving socket registered (its index entry); after a draw
\* it carries winner 'draw' and winnerName null.
C11_GameOverNamesMover ==
    [][(AcceptedMove /\ ~rooms'[RoomOf(last'.conn)].game.gameActive) =>
          LET s == last'.conn
              g == rooms'[RoomOf(s)].game
              over == sent'[Len(sent')]
          IN  /\ over.ev = "gameOver"
              /\ IF g.winner = "draw"
                 THEN over.winner = "draw" /\ over.winnerName = "null"
                 ELSE /\ over.winner = PlayerOf(g, s).symbol
                      /\ over.winnerName = players[s].playerName]_vars

\* The sockets of a room's membership list that are connected.
OpenMembers(room) == {m \in Members(room) : conns[m] = "open"}

\* The reference rule's terminal boards: a line of either marker, or no empty cell.
Terminal(board) == HasLine(board, "X") \/ HasLine(board, "O") \/ Full(board)

\* C12: every accepted move sends first one moveMade, to the room's group (every
\* connected member of the room is in it), carrying the board, turn and active
\* flag the move left; it sends one more message, a gameOver to the same group,
\* if and only if the move left a terminal board, and then the moveMade's
\* gameActive is false; and no other step sends a moveMade or a gameOver.
C12_MoveMadeThenGameOver ==
    [][/\ AcceptedMove =>
             LET c == RoomOf(last'.conn)
                 h == rooms'[c].game
                 moveMade == sent'[1]
             IN  /\ Len(sent') \in {1, 2}
                 /\ moveMade.ev = "moveMade"
                 /\ moveMade.to = sioRooms'[c]
                 /\ OpenMembers(rooms[c]) \subseteq moveMade.to
                 /\ moveMade.board = h.board
                 /\ moveMade.currentPlayer = h.currentPlayer
                 /\ moveMade.gameActive = h.gameActive
                 /\ Len(sent') = 2 <=> Terminal(h.board)
                 /\ Len(sent') = 2 =>
                       /\ sent'[2].ev = "gameOver"
                       /\ sent'[2].to = moveMade.to
                       /\ sent'[2].board = h.board
                       /\ ~moveMade.gameActive
       /\ ~AcceptedMove =>
             \A k \in 1..Len(sent') : sent'[k].ev \notin {"moveMade", "gameOver"}]_vars

\* C12 witness: the move just accepted completed a line; moveMade with
\* gameActive false was followed by gameOver to the same two sockets.
C12_Witness ==
    /\ last.op = "makeMove" /\ last.result = "accepted"
    /\ Len(sent) = 2
    /\ sent[1].ev = "moveMade" /\ ~sent[1].gameActive
    /\ sent[2].ev = "gameOver" /\ sent[2].winner \in {"X", "O"}
    /\ Cardinality(sent[2].to) = Capacity

\* joinRoom adds a participant record with marker O and records are never
\* removed, so a room has had no successful join exactly while its engine holds
\* the creator's record alone, with marker X.
NoJoinYet(room) == Len(room.game.players) = 1 /\ room.game.players[1].symbol = "X"

\* C13: a successful joinRoom on a room that has had no successful join gives
\* the joiner marker O and sends the room's group a gameState with gameActive
\* true, currentPlayer X and an empty board.
C13_FirstJoinStartsFresh ==
    [][(last'.op = "joinRoom" /\ last'.result = "ok"
           /\ NoJoinYet(rooms[players'[last'.conn].roomCode])) =>
          LET s == last'.conn
              c == players'[s].roomCode
              gameState == sent'[Len(sent')]
          IN  /\ PlayerOf(rooms'[c].game, s).symbol = "O"
              /\ gameState.ev = "gameState"
              /\ gameState.to = sioRooms'[c]
              /\ gameState.gameActive
              /\ gameState.currentPlayer = "X"
              /\ \A i \in 0..8 : gameState.board[i] = ""]_vars

\* C14: the disconnect of a socket bound to a live room sends one
\* playerDisconnected with the socket's display name; its recipients are the
\* other connected members of that room, all of them and nobody else: not the
\* departing socket, and no socket that is a member of another room or whose
\* index entry names another room.
C14_NoticeToRemainingMembers ==
    [][(last'.op = "disconnect" /\ last'.result = "ok") =>
          LET s == last'.conn
              c == RoomOf(s)
              notice == sent'[1]
          IN  /\ Len(sent') = 1
              /\ notice.ev = "playerDisconnected"
              /\ notice.playerName = players[s].playerName
              /\ s \notin notice.to
              /\ notice.to = OpenMembers(rooms[c]) \ {s}
              /\ \A r \in notice.to :
                    /\ r \in DOMAIN players /\ RoomOf(r) = c
                    /\ \A d \in DOMAIN rooms \ {c} : r \notin Members(rooms[d])]_vars

\* The record createRoom put into the new engine (line 96): the first key of
\* game.players, which later assignments to the same key leave first.
Creator(room) == room.game.players[1]

\* C15 as stated: on every successful joinRoom the opponentName of roomJoined
\* is the display name of the room's creator.
C15_OpponentIsCreator ==
    [][(last'.op = "joinRoom" /\ last'.result = "ok") =>
          LET c == players'[last'.conn].roomCode
          IN  sent'[1].opponentName = Creator(rooms[c]).name]_vars

\* C15 amended: on every successful joinRoom, roomJoined goes to the joiner
\* alone and its opponentName is the display name of the first socket of the
\* room's membership list, the longest-standing member: the creator as long as
\* the creator has not left the room.
C15_OpponentIsFirstMember ==
    [][(last'.op = "joinRoom" /\ last'.result = "ok") =>
          LET s == last'.conn
              c == players'[s].roomCode
              roomJoined == sent'[1]
          IN  /\ roomJoined.ev = "roomJoined"
              /\ roomJoined.to = {s}
              /\ roomJoined.opponentName = UserName[rooms[c].players[1]]
              /\ Creator(rooms[c]).id \in Members(rooms[c])
                    => roomJoined.opponentName = Creator(rooms[c]).name]_vars

\* C15 witness: a socket just joined a room whose creator had left; the name
\* it was given is that of the member who stayed.
C15_Witness ==
    /\ last.op = "joinRoom" /\ last.result = "ok"
    /\ LET room == rooms[RoomOf(last.conn)]
       IN  /\ Creator(room).id \notin Members(room)
           /\ room.players[1] # last.conn
           /\ sent[1].opponentName = UserName[room.players[1]]
           /\ sent[1].opponentName # Creator(room).name

\* C16: whatever code generateRoomCode returns, createRoom gives the new room
\* a code no live room has, and leaves the record (engine and membership) of
\* every room that was live as it was.
C16_CreateKeepsLiveRooms ==
    [][last'.op = "createRoom" =>
          /\ players'[last'.conn].roomCode \notin DOMAIN rooms
          /\ \A c \in DOMAIN rooms : c \in DOMAIN rooms' /\ rooms'[c] = rooms[c]]_vars

\* C17: a makeMove, joinRoom or disconnect step leaves every non-empty cell of
\* every room that stays in the registry with its marker and the board with
\* its 9 cells; an accepted move changes exactly one cell of the mover's room,
\* from empty to the mover's marker, and any other such step changes no cell.
C17_FilledCellsKept ==
    [][last'.op \in {"makeMove", "joinRoom", "disconnect"} =>
          /\ \A c \in DOMAIN rooms \cap DOMAIN rooms' :
                LET b == rooms[c].game.board
                    b2 == rooms'[c].game.board
                    changed == {i \in 0..8 : b2[i] # b[i]}
                IN  /\ DOMAIN b2 = 0..8
                    /\ \A i \in 0..8 : b[i] # "" => b2[i] = b[i]
                    /\ IF AcceptedMove /\ c = RoomOf(last'.conn)
                       THEN /\ Cardinality(changed) = 1
                            /\ \A i \in changed :
                                  /\ b[i] = ""
                                  /\ b2[i] = PlayerOf(rooms[c].game, last'.conn).symbol
                       ELSE changed = {}]_vars

\* C17 witness: a move was just accepted on a board that already held four
\* markers, and the game goes on.
C17_Witness ==
    /\ last.op = "makeMove" /\ last.result = "accepted"
    /\ LET g == rooms[RoomOf(last.conn)].game
       IN  /\ g.gameActive
           /\ Cardinality({i \in 0..8 : g.board[i] # ""}) = 5

\* C18: every entry of the connection index names a room of the registry
\* whose membership list holds the socket and whose engine has a participant
\* record for it, with the name of the index entry and a marker; so no
\* makeMove or resetGame finds the index entry's room missing, and makeMove
\* never throws on a missing participant.
C18_IndexConsistent ==
    /\ \A s \in DOMAIN players :
          /\ RoomOf(s) \in DOMAIN rooms
          /\ s \in Members(rooms[RoomOf(s)])
          /\ HasPlayer(rooms[RoomOf(s)].game, s)
          /\ PlayerOf(rooms[RoomOf(s)].game, s).name = players[s].playerName
          /\ PlayerOf(rooms[RoomOf(s)].game, s).symbol \in {"X", "O"}
    /\ last.op \in {"makeMove", "resetGame"} => last.result \notin {"noRoom", "threw"}
    /\ running

\* C18 witness: a socket that left its first room behind by creating a second
\* one has just had a move accepted in the room its index entry names.
C18_Witness ==
    /\ last.op = "makeMove" /\ last.result = "accepted"
    /\ \E c \in DOMAIN rooms :
          c # RoomOf(last.conn) /\ last.conn \in Members(rooms[c])

\* C19: in every room the recorded outcome agrees with the board: it is marker
\* m's win exactly when the board has a line of m, a draw exactly when the
\* board is full without a line, and none exactly when the board has no line
\* and an empty cell; so no board has lines of both markers.
C19_OutcomeAgreesWithBoard ==
    \A c \in DOMAIN rooms :
        LET g == rooms[c].game
            line == HasLine(g.board, "X") \/ HasLine(g.board, "O")
        IN  /\ g.winner \in {"null", "X", "O", "draw"}
            /\ \A m \in {"X", "O"} : g.winner = m <=> HasLine(g.board, m)
            /\ g.winner = "draw" <=> (Full(g.board) /\ ~line)
            /\ g.winner = "null" <=> (~line /\ ~Full(g.board))
            /\ ~(HasLine(g.board, "X") /\ HasLine(g.board, "O"))

\* C19 witness: a finished game was reactivated by a joinRoom and a further
\* move was accepted on its board: the outcome is still the line's marker.
C19_Witness ==
    /\ last.op = "makeMove" /\ last.result = "accepted"
    /\ LET g == rooms[RoomOf(last.conn)].game
       IN  /\ g.winner = "O"
           /\ HasLine(g.board, "O")
           /\ Cardinality({i \in 0..8 : g.board[i] = "O"})
                 > Cardinality({i \in 0..8 : g.board[i] = "X"})

\* C20: a makeMove or resetGame step of a socket changes no room but the one
\* the socket's index entry names, adds and removes no room, and leaves that
\* room's membership, the index and the groups as they were; every message it
\* sends goes to the group of that room's code, whose sockets are all members
\* of that room.
C20_RoomsIsolated ==
    [][last'.op \in {"makeMove", "resetGame"} =>
          LET s == last'.conn
          IN  /\ DOMAIN rooms' = DOMAIN rooms
              /\ \A c \in DOMAIN rooms :
                    (~Bound(s) \/ c # RoomOf(s)) => rooms'[c] = rooms[c]
              /\ Bound(s) => rooms'[RoomOf(s)].players = rooms[RoomOf(s)].players
              /\ players' = players
              /\ sioRooms' = sioRooms
              /\ \A k \in 1..Len(sent') :
                    /\ Bound(s)
                    /\ sent'[k].to = sioRooms[RoomOf(s)]
                    /\ sent'[k].to \subseteq Members(rooms[RoomOf(s)])]_vars

\* C20 witness: a move was just accepted in one room while another room, with
\* a marker on its board and a socket in its group, is live.
C20_Witness ==
    /\ last.op = "makeMove" /\ last.result = "accepted"
    /\ \E d \in DOMAIN rooms :
          /\ d # RoomOf(last.conn)
          /\ rooms[d].game.board[0] # ""
          /\ sioRooms[d] # {}
          /\ sioRooms[d] # sioRooms[RoomOf(last.conn)]

====
